---- MODULE Spec2Model ----
(***************************************************************************)
(* Model of pkg/director/director.go: the director's Start/Stop lifecycle, *)
(* its four goroutines (periodic, watches, arps, causePeriodicWatcherSync)  *)
(* and the applyConf pipeline, together with the kernel state and the     *)
(* Watcher fields the director reads.                                      *)
(*                                                                         *)
(* Every goroutine is a process with a program counter; one action is one  *)
(* atomic read, write or collaborator call of the source.  A Go runtime    *)
(* panic (nil pointer or nil function dereference) ends the whole process: *)
(* crashed names the line that panicked and disables every action.         *)
(***************************************************************************)
EXTENDS Integers, FiniteSets, Sequences, TLC

\* ------------------------------------------------------------------ bounds
\* Number of goroutines that may call Start / Stop concurrently.
NumCallers == 2
\* Number of Start calls that may get past the guards of lines 100-105.
MaxStarts == 2

Callers == 1..NumCallers
\* One child context (ctxWatch) and one set of loops per Start that reaches line 130.
Gens == 1..MaxStarts
\* The IPv4 VIPs that may appear as keys of ClusterConfig.Config.
VIPs == {"10.0.0.1", "10.0.0.2"}

\* --------------------------------------------------------------- constants
colocationModeDisabled == "disabled"
colocationModeIPTables == "iptables"
colocationModeIPVS == "ipvs"
ColocationModes == {colocationModeDisabled, colocationModeIPTables, colocationModeIPVS}

\* Capacity of nodeChan (make(chan []*corev1.Node, 1)).
NodeChanCap == 1

\* ---------------------------------------------------------------- watcher
\* watcher.ClusterConfig is a pointer: nil, or a record whose Config map is
\* nil or holds a set of VIP keys.
NilClusterConfig == [kind |-> "nil", keys |-> {}]
NilConfigMap == [kind |-> "nilmap", keys |-> {}]
ClusterConfigs == {NilClusterConfig, NilConfigMap} \cup {[kind |-> "map", keys |-> S] : S \in SUBSET VIPs}

\* watcher.Nodes: nil, a list without the local node, or a list holding it.
NodeLists == {"nil", "others", "withLocal"}

VARIABLES
    \* director fields
    isStarted, reconfiguring, doneChan, ctxWatch, cxlWatch, node, nodeChan,
    colocationMode, doCleanup, env,
    \* cancellation scopes: the parent d.ctx, and the cancelled child contexts
    ctxDone, watchDone,
    \* collaborators: Watcher fields and kernel state behind IP / IPVS / IPTables
    watcherNodes, watcherClusterConfig, iface, ipvsTable, IptablesWriteFailure,
    \* goroutines
    caller, periodicT, watchesT, arpsT, syncT,
    \* bookkeeping
    starts, flips, spawned, crashed

vars == <<isStarted, reconfiguring, doneChan, ctxWatch, cxlWatch, node, nodeChan,
          colocationMode, doCleanup, env, ctxDone, watchDone,
          watcherNodes, watcherClusterConfig, iface, ipvsTable, IptablesWriteFailure,
          caller, periodicT, watchesT, arpsT, syncT, starts, flips, spawned, crashed>>

dirVars == <<isStarted, reconfiguring, doneChan, ctxWatch, cxlWatch>>
cfgVars == <<colocationMode, doCleanup, env>>
scopeVars == <<ctxDone, watchDone>>
watcherVars == <<watcherNodes, watcherClusterConfig>>
kernelVars == <<iface, ipvsTable, IptablesWriteFailure>>
loopVars == <<periodicT, watchesT, arpsT, syncT>>

\* The process is alive: no goroutine has panicked.
Alive == crashed = "no"

\* <-ctx.Done() of child context g is ready: g was cancelled, or its parent was.
Done(g) == ctxDone \/ g \in watchDone

\* What a collaborator call may return: nil (TRUE) or an error, unless the
\* environment is calm and every call succeeds.
Outcomes == IF env.calm THEN {TRUE} ELSE BOOLEAN

\* A caller that is not inside Start or Stop.
IdleCaller == [pc |-> "idle", op |-> "none", ret |-> "none", ch |-> 0, calls |-> {}, failed |-> FALSE]

\* A periodic goroutine that is not inside applyConf.
IdleApply == [force |-> FALSE, rem |-> {}, add |-> {}, desired |-> {}, observed |-> {},
              deleted |-> {}, added |-> {}, addFailed |-> {},
              parity |-> "none", calls |-> {}, metrics |-> <<>>, torn |-> FALSE, res |-> "none",
              getErr |-> FALSE, prev |-> "none"]

\* How an apply that has returned went, kept (where env.history asks for it)
\* until the next apply of the same loop returns: "blind" (success after the
\* IP.Get of the parity check failed), "addFailed" (metric "complete" with a
\* failed IP.Add), "noop", "applied" (metric "complete" otherwise),
\* "restoreFailed" (IPTables.Restore returned the error) or "error".
Outcome(a) ==
    IF ~env.history THEN "none"
    ELSE IF a.res = "ErrIPTables" /\ "IPTables.Restore" \in a.calls THEN "restoreFailed"
    ELSE IF a.res # "nil" THEN "error"
    ELSE IF a.getErr THEN "blind"
    ELSE IF a.addFailed # {} THEN "addFailed"
    ELSE IF a.metrics = <<"noop">> THEN "noop"
    ELSE "applied"

NotSpawned == [pc |-> "none", cap |-> 0, ch |-> 0, a |-> IdleApply]

\* NewDirector (lines 75-97): nothing started, doneChan made, nodeChan empty,
\* ctxWatch / cxlWatch / node left nil; the flags come from the command line.
\* e is the environment the director runs in: how many goroutines call
\* Start / Stop, how many Starts they get through, and whether collaborator
\* calls may fail.
NewDirector(e) ==
    /\ isStarted = FALSE
    /\ reconfiguring = FALSE
    /\ doneChan = 0
    /\ ctxWatch = 0
    /\ cxlWatch = 0
    /\ node = "nil"
    /\ nodeChan = <<>>
    /\ colocationMode \in ColocationModes
    /\ doCleanup \in BOOLEAN
    /\ env = e
    /\ ctxDone = FALSE
    /\ watchDone = {}
    /\ IptablesWriteFailure = 0
    /\ caller = [c \in Callers |-> IdleCaller]
    /\ periodicT = [g \in Gens |-> NotSpawned]
    /\ watchesT = [g \in Gens |-> [pc |-> "none", cap |-> 0]]
    /\ arpsT = [g \in Gens |-> [pc |-> "none", cap |-> 0]]
    /\ syncT = [g \in Gens |-> "none"]
    /\ starts = 0
    /\ flips = 0
    /\ spawned = 0
    /\ crashed = "no"

\* One caller that may start the director once; the Watcher holds still,
\* with or without a ClusterConfig, and the interface carries a VIP that an
\* earlier run left behind.  The source only asks whether the colocation mode
\* is iptables, so "ipvs" behaves as "disabled" does.
Init ==
    /\ NewDirector([callers |-> 1, starts |-> 1, calm |-> FALSE, history |-> FALSE])
    /\ colocationMode # colocationModeIPVS
    /\ watcherNodes = "withLocal"
    /\ watcherClusterConfig \in {NilClusterConfig, [kind |-> "map", keys |-> {"10.0.0.1"}]}
    /\ iface = {"10.0.0.2"}
    /\ ipvsTable = {}

\* ------------------------------------------------------------------- Start
\* Start calls still between the guards and line 111.
StartsInFlight == Cardinality({c \in Callers : caller[c].pc \in {"st_rc", "st_set", "st_init"}})

\* StartCall without the guard of lines 100-102.
StartCall_NoStartedGuard(c) ==
    /\ Alive
    /\ caller[c].pc = "idle"
    /\ c <= env.callers
    /\ isStarted \/ starts + StartsInFlight < env.starts
    /\ caller' = [caller EXCEPT ![c] = [IdleCaller EXCEPT !.op = "Start", !.pc = "st_rc"]]
    /\ UNCHANGED <<dirVars, node, nodeChan, cfgVars, scopeVars, watcherVars, kernelVars,
                   loopVars, starts, flips, spawned, crashed>>

\* Start, line 100: the call and its isStarted guard.
StartCall(c) ==
    /\ Alive
    /\ caller[c].pc = "idle"
    /\ c <= env.callers
    /\ isStarted \/ starts + StartsInFlight < env.starts
    /\ IF isStarted
          THEN caller' = [caller EXCEPT ![c] = [IdleCaller EXCEPT !.op = "Start", !.ret = "ErrStarted", !.pc = "returned"]]
          ELSE caller' = [caller EXCEPT ![c] = [IdleCaller EXCEPT !.op = "Start", !.pc = "st_rc"]]
    /\ UNCHANGED <<dirVars, node, nodeChan, cfgVars, scopeVars, watcherVars, kernelVars,
                   loopVars, starts, flips, spawned, crashed>>

\* Start, lines 103-105: the reconfiguring guard.
StartCheckReconfiguring(c) ==
    /\ Alive
    /\ caller[c].pc = "st_rc"
    /\ IF reconfiguring
          THEN caller' = [caller EXCEPT ![c].pc = "returned", ![c].ret = "ErrReconfiguring"]
          ELSE caller' = [caller EXCEPT ![c].pc = "st_set"]
    /\ UNCHANGED <<dirVars, node, nodeChan, cfgVars, scopeVars, watcherVars, kernelVars,
                   loopVars, starts, flips, spawned, crashed>>

\* Start, line 106: d.setReconfiguring(true).
StartSetReconfiguring(c) ==
    /\ Alive
    /\ caller[c].pc = "st_set"
    /\ reconfiguring' = TRUE
    /\ caller' = [caller EXCEPT ![c].pc = "st_init"]
    /\ UNCHANGED <<isStarted, doneChan, ctxWatch, cxlWatch, node, nodeChan, cfgVars, scopeVars,
                   watcherVars, kernelVars, loopVars, starts, flips, spawned, crashed>>

\* Start, lines 111-112: isStarted = true; doneChan = make(chan struct{}).
StartInit(c) ==
    /\ Alive
    /\ caller[c].pc = "st_init"
    /\ isStarted' = TRUE
    /\ flips' = IF isStarted THEN flips ELSE flips + 1
    /\ starts' = starts + 1
    /\ doneChan' = starts + 1
    /\ caller' = [caller EXCEPT ![c].pc = "st_arp"]
    /\ UNCHANGED <<reconfiguring, ctxWatch, cxlWatch, node, nodeChan, cfgVars, scopeVars,
                   watcherVars, kernelVars, loopVars, spawned, crashed>>

\* Start, lines 115-118: d.ip.SetARP(); an error returns from Start.
StartSetARP(c) ==
    /\ Alive
    /\ caller[c].pc = "st_arp"
    /\ \E ok \in Outcomes :
          caller' = [caller EXCEPT ![c].calls = @ \cup {"IP.SetARP"},
                                   ![c].failed = ~ok,
                                   ![c].pc = IF ok THEN "st_flush" ELSE "st_ret"]
    /\ UNCHANGED <<dirVars, node, nodeChan, cfgVars, scopeVars, watcherVars, kernelVars,
                   loopVars, starts, flips, spawned, crashed>>

\* Start, lines 120-125: flush iptables unless colocated in iptables mode.
StartFlush(c) ==
    /\ Alive
    /\ caller[c].pc = "st_flush"
    /\ IF colocationMode # colocationModeIPTables
          THEN \E ok \in Outcomes :
                  caller' = [caller EXCEPT ![c].calls = @ \cup {"IPTables.Flush"},
                                           ![c].failed = ~ok,
                                           ![c].pc = IF ok THEN "st_spawn" ELSE "st_ret"]
          ELSE caller' = [caller EXCEPT ![c].pc = "st_spawn"]
    /\ UNCHANGED <<dirVars, node, nodeChan, cfgVars, scopeVars, watcherVars, kernelVars,
                   loopVars, starts, flips, spawned, crashed>>

\* Start, lines 130-145: derive the child context from d.ctx and spawn
\* periodic, watches, arps and causePeriodicWatcherSync.
StartSpawn(c) ==
    /\ Alive
    /\ caller[c].pc = "st_spawn"
    /\ LET g == spawned + 1 IN
          /\ spawned' = g
          /\ ctxWatch' = g
          /\ cxlWatch' = g
          /\ periodicT' = [periodicT EXCEPT ![g] = [NotSpawned EXCEPT !.pc = "select", !.cap = g]]
          /\ watchesT' = [watchesT EXCEPT ![g] = [pc |-> "select", cap |-> g]]
          /\ arpsT' = [arpsT EXCEPT ![g] = [pc |-> "select", cap |-> g]]
          /\ syncT' = [syncT EXCEPT ![g] = "send"]
    /\ caller' = [caller EXCEPT ![c].pc = "st_ret"]
    /\ UNCHANGED <<isStarted, reconfiguring, doneChan, node, nodeChan, cfgVars, scopeVars,
                   watcherVars, kernelVars, starts, flips, crashed>>

\* Start, line 107 (deferred) and the return: d.setReconfiguring(false).
StartReturn(c) ==
    /\ Alive
    /\ caller[c].pc = "st_ret"
    /\ reconfiguring' = FALSE
    /\ caller' = [caller EXCEPT ![c].pc = "returned",
                                ![c].ret = IF ~caller[c].failed THEN "nil"
                                           ELSE IF "IPTables.Flush" \in caller[c].calls
                                                   THEN "ErrFlush" ELSE "ErrSetARP"]
    /\ UNCHANGED <<isStarted, doneChan, ctxWatch, cxlWatch, node, nodeChan, cfgVars, scopeVars,
                   watcherVars, kernelVars, loopVars, starts, flips, spawned, crashed>>

\* The caller goes on after Start or Stop has returned.
CallerResume(c) ==
    /\ Alive
    /\ caller[c].pc = "returned"
    /\ caller' = [caller EXCEPT ![c] = IdleCaller]
    /\ UNCHANGED <<dirVars, node, nodeChan, cfgVars, scopeVars, watcherVars, kernelVars,
                   loopVars, starts, flips, spawned, crashed>>

\* The steps of a Start that has been called.
StartBody(c) ==
    \/ StartCheckReconfiguring(c)
    \/ StartSetReconfiguring(c)
    \/ StartInit(c)
    \/ StartSetARP(c)
    \/ StartFlush(c)
    \/ StartSpawn(c)
    \/ StartReturn(c)

Start(c) ==
    \/ StartCall(c)
    \/ StartBody(c)

\* -------------------------------------------------------------------- Stop
\* Stop, lines 193-195: the call and its reconfiguring guard.
StopCall(c) ==
    /\ Alive
    /\ caller[c].pc = "idle"
    /\ c <= env.callers
    /\ IF reconfiguring
          THEN caller' = [caller EXCEPT ![c] = [IdleCaller EXCEPT !.op = "Stop", !.ret = "ErrReconfiguring", !.pc = "returned"]]
          ELSE caller' = [caller EXCEPT ![c] = [IdleCaller EXCEPT !.op = "Stop", !.pc = "sp_set"]]
    /\ UNCHANGED <<dirVars, node, nodeChan, cfgVars, scopeVars, watcherVars, kernelVars,
                   loopVars, starts, flips, spawned, crashed>>

\* Stop, line 196: d.setReconfiguring(true).
StopSetReconfiguring(c) ==
    /\ Alive
    /\ caller[c].pc = "sp_set"
    /\ reconfiguring' = TRUE
    /\ caller' = [caller EXCEPT ![c].pc = "sp_cxl"]
    /\ UNCHANGED <<isStarted, doneChan, ctxWatch, cxlWatch, node, nodeChan, cfgVars, scopeVars,
                   watcherVars, kernelVars, loopVars, starts, flips, spawned, crashed>>

\* Stop, lines 200-202: d.cxlWatch() (a nil function value panics), then the
\* select is entered and evaluates d.doneChan.
StopCancel(c) ==
    /\ Alive
    /\ caller[c].pc = "sp_cxl"
    /\ IF cxlWatch = 0
          THEN /\ crashed' = "Stop:200"
               /\ UNCHANGED <<caller, watchDone>>
          ELSE /\ watchDone' = watchDone \cup {cxlWatch}
               /\ caller' = [caller EXCEPT ![c].pc = "sp_wait", ![c].ch = doneChan]
               /\ UNCHANGED crashed
    /\ UNCHANGED <<dirVars, node, nodeChan, cfgVars, ctxDone, watcherVars, kernelVars,
                   loopVars, starts, flips, spawned>>

\* After the select of lines 202-205: line 211 decides whether cleanup runs.
AfterWait == IF doCleanup THEN "cl_flush" ELSE "sp_ret"

\* Stop, line 204: time.After(5000ms) fires before anything arrives on
\* doneChan.  A sender that is already waiting is received from at once, and
\* a reconcile loop that sits in its select with its context done takes that
\* case within the 5 s: the timer wins only against a loop that is busy in
\* an apply, blocked elsewhere, or gone.
StopWaitTimeout(c) ==
    /\ Alive
    /\ caller[c].pc = "sp_wait"
    /\ ~\E g \in Gens : periodicT[g].pc = "send" /\ periodicT[g].ch = caller[c].ch
    /\ ~\E g \in Gens : periodicT[g].pc = "select" /\ Done(periodicT[g].cap)
    /\ caller' = [caller EXCEPT ![c].pc = AfterWait]
    /\ UNCHANGED <<dirVars, node, nodeChan, cfgVars, scopeVars, watcherVars, kernelVars,
                   loopVars, starts, flips, spawned, crashed>>

\* Stop, line 203 with periodic, line 363: the unbuffered doneChan hands one
\* value from the periodic goroutine g to the waiting Stop.
StopRecvDone(c, g) ==
    /\ Alive
    /\ caller[c].pc = "sp_wait"
    /\ periodicT[g].pc = "send"
    /\ periodicT[g].ch = caller[c].ch
    /\ caller' = [caller EXCEPT ![c].pc = AfterWait]
    /\ periodicT' = [periodicT EXCEPT ![g].pc = "done"]
    /\ UNCHANGED <<dirVars, node, nodeChan, cfgVars, scopeVars, watcherVars, kernelVars,
                   watchesT, arpsT, syncT, starts, flips, spawned, crashed>>

\* The applies whose address reconciliation is under way see the interface
\* rewritten by somebody else.
Tear(except) ==
    [g \in Gens |->
        IF g # except /\ periodicT[g].pc \in {"del", "add", "mtu", "ipt", "restore", "ipvs", "ret"}
           THEN [periodicT[g] EXCEPT !.a.torn = TRUE]
           ELSE periodicT[g]]

\* cleanup, lines 174-176: d.iptables.Flush(); an error is accumulated.
cleanupFlush(c) ==
    /\ Alive
    /\ caller[c].pc = "cl_flush"
    /\ \E ok \in Outcomes :
          caller' = [caller EXCEPT ![c].calls = @ \cup {"IPTables.Flush"},
                                   ![c].failed = @ \/ ~ok,
                                   ![c].pc = "cl_ip"]
    /\ UNCHANGED <<dirVars, node, nodeChan, cfgVars, scopeVars, watcherVars, kernelVars,
                   loopVars, starts, flips, spawned, crashed>>

\* cleanup, lines 178-180: d.ip.Teardown(ctx, ClusterConfig.Config, ClusterConfig.Config6);
\* a nil ClusterConfig pointer panics on the field read.
cleanupIPTeardown(c) ==
    /\ Alive
    /\ caller[c].pc = "cl_ip"
    /\ IF watcherClusterConfig.kind = "nil"
          THEN /\ crashed' = "cleanup:178"
               /\ UNCHANGED <<caller, iface, periodicT>>
          ELSE /\ \E ok \in Outcomes :
                     /\ caller' = [caller EXCEPT ![c].calls = @ \cup {"IP.Teardown"},
                                                 ![c].failed = @ \/ ~ok,
                                                 ![c].pc = "cl_ipvs"]
                     /\ iface' = IF ok THEN iface \ watcherClusterConfig.keys ELSE iface
                     /\ periodicT' = IF ok THEN Tear(0) ELSE periodicT
               /\ UNCHANGED crashed
    /\ UNCHANGED <<dirVars, node, nodeChan, cfgVars, scopeVars, watcherVars, ipvsTable,
                   IptablesWriteFailure, watchesT, arpsT, syncT,
                   starts, flips, spawned>>

\* cleanup, lines 182-189: d.ipvs.Teardown(ctx), then the joined error.
cleanupIPVSTeardown(c) ==
    /\ Alive
    /\ caller[c].pc = "cl_ipvs"
    /\ \E ok \in Outcomes :
          /\ caller' = [caller EXCEPT ![c].calls = @ \cup {"IPVS.Teardown"},
                                      ![c].failed = @ \/ ~ok,
                                      ![c].pc = "sp_ret"]
          /\ ipvsTable' = IF ok THEN {} ELSE ipvsTable
    /\ UNCHANGED <<dirVars, node, nodeChan, cfgVars, scopeVars, watcherVars, iface,
                   IptablesWriteFailure, loopVars, starts, flips, spawned, crashed>>

cleanup(c) ==
    \/ cleanupFlush(c)
    \/ cleanupIPTeardown(c)
    \/ cleanupIPVSTeardown(c)

\* Stop, lines 213-218 and the deferred line 197: isStarted = false, the
\* cleanup error (or nil) is returned, d.setReconfiguring(false).
StopReturn(c) ==
    /\ Alive
    /\ caller[c].pc = "sp_ret"
    /\ isStarted' = FALSE
    /\ reconfiguring' = FALSE
    /\ caller' = [caller EXCEPT ![c].pc = "returned",
                                ![c].ret = IF caller[c].failed THEN "ErrCleanup" ELSE "nil"]
    /\ UNCHANGED <<doneChan, ctxWatch, cxlWatch, node, nodeChan, cfgVars, scopeVars,
                   watcherVars, kernelVars, loopVars, starts, flips, spawned, crashed>>

\* The steps of a Stop that has been called.
StopBody(c) ==
    \/ StopSetReconfiguring(c)
    \/ StopCancel(c)
    \/ StopWaitTimeout(c)
    \/ \E g \in Gens : StopRecvDone(c, g)
    \/ cleanup(c)
    \/ StopReturn(c)

Stop(c) ==
    \/ StopCall(c)
    \/ StopBody(c)

\* ------------------------------------------------ causePeriodicWatcherSync
\* Lines 157-164: every 3 s, d.nodeChan <- d.watcher.Nodes; the send blocks
\* while the buffer is full, and the loop has no exit.
causePeriodicWatcherSync(g) ==
    /\ Alive
    /\ syncT[g] = "send"
    /\ Len(nodeChan) < NodeChanCap
    /\ nodeChan' = Append(nodeChan, watcherNodes)
    /\ UNCHANGED <<dirVars, node, cfgVars, scopeVars, watcherVars, kernelVars, caller,
                   loopVars, starts, flips, spawned, crashed>>

\* ----------------------------------------------------------------- watches
\* Lines 233-250: a node list arrives; the entry named nodeName is cached
\* under the mutex.  The next select evaluates d.ctxWatch again.
watchesRecv(g) ==
    /\ Alive
    /\ watchesT[g].pc = "select"
    /\ Len(nodeChan) > 0
    /\ nodeChan' = Tail(nodeChan)
    /\ node' = IF Head(nodeChan) = "withLocal" THEN "local" ELSE node
    /\ watchesT' = [watchesT EXCEPT ![g].cap = ctxWatch]
    /\ UNCHANGED <<dirVars, cfgVars, scopeVars, watcherVars, kernelVars, caller,
                   periodicT, arpsT, syncT, starts, flips, spawned, crashed>>

\* Lines 262-267: the parent or the watch context is done.
watchesExit(g) ==
    /\ Alive
    /\ watchesT[g].pc = "select"
    /\ Done(watchesT[g].cap)
    /\ watchesT' = [watchesT EXCEPT ![g].pc = "done"]
    /\ UNCHANGED <<dirVars, node, nodeChan, cfgVars, scopeVars, watcherVars, kernelVars, caller,
                   periodicT, arpsT, syncT, starts, flips, spawned, crashed>>

watches(g) ==
    \/ watchesRecv(g)
    \/ watchesExit(g)

\* -------------------------------------------------------------------- arps
\* The VIPs the ARP tick advertises (lines 284-293): none when ClusterConfig
\* or Nodes is nil, else the keys of ClusterConfig.Config.
arpTargets ==
    IF watcherClusterConfig.kind = "nil" \/ watcherNodes = "nil"
       THEN {}
       ELSE watcherClusterConfig.keys

\* Lines 281-299: one ARP tick; AdvertiseMacAddress failures are only counted.
arpsTick(g) ==
    /\ Alive
    /\ arpsT[g].pc = "select"
    /\ arpsT' = [arpsT EXCEPT ![g].cap = ctxWatch]
    /\ UNCHANGED <<dirVars, node, nodeChan, cfgVars, scopeVars, watcherVars, kernelVars, caller,
                   periodicT, watchesT, syncT, starts, flips, spawned, crashed>>

\* Lines 301-306: the parent or the watch context is done.
arpsExit(g) ==
    /\ Alive
    /\ arpsT[g].pc = "select"
    /\ Done(arpsT[g].cap)
    /\ arpsT' = [arpsT EXCEPT ![g].pc = "done"]
    /\ UNCHANGED <<dirVars, node, nodeChan, cfgVars, scopeVars, watcherVars, kernelVars, caller,
                   periodicT, watchesT, syncT, starts, flips, spawned, crashed>>

arps(g) ==
    \/ arpsTick(g)
    \/ arpsExit(g)

\* ---------------------------------------------------------- collaborators
\* IP.Compare4(observed, desired): the addresses to remove and the ones to add.
Compare4(observed, desired) == [removals |-> observed \ desired, additions |-> desired \ observed]

\* IPVS.CheckConfigParity(watcher, cfg, addresses): the bound addresses are
\* the configured VIPs and the IPVS table is the one the config generates.
CheckConfigParity(cfg, addresses, table) == addresses = cfg.keys /\ table = cfg.keys

\* ---------------------------------------------------------------- periodic
\* The apply of goroutine g ends: d.metrics.Reconfigure(label, ...) and the return value.
Finish(g, a, label, res) ==
    [periodicT[g] EXCEPT !.pc = "ret",
                         !.a = [a EXCEPT !.metrics = Append(@, label), !.res = res]]

\* The apply of goroutine g goes on at pc with its locals a.
Goto(g, a, pc) == [periodicT[g] EXCEPT !.pc = pc, !.a = a]

\* The interface is rewritten by goroutine g: every other apply under way is torn.
Rewrite(g, rec) == [Tear(g) EXCEPT ![g] = rec]

\* applyConf that runs the parity check whatever force is.
applyConfEntry_AlwaysParity(force) == "parity"

\* setAddresses that runs no IP.Add.
AddrPc_SkipAdd(rem, add) == IF rem # {} THEN "del" ELSE "mtu"

\* applyConf, lines 388-390: force skips the parity check.
applyConfEntry(force) == IF force THEN "addrs" ELSE "parity"

\* Lines 325-356: the forced (60 s) or the parity (2 s) ticker fires.  Reading
\* ClusterConfig.Config through a nil ClusterConfig panics; a nil Config map or
\* nil Nodes skips the tick; else reconfigure(force) enters applyConf.
periodicTick(g, force) ==
    /\ Alive
    /\ periodicT[g].pc = "select"
    /\ IF watcherClusterConfig.kind = "nil"
          THEN /\ crashed' = IF force THEN "periodic:326" ELSE "periodic:347"
               /\ UNCHANGED periodicT
          ELSE /\ UNCHANGED crashed
               /\ IF watcherClusterConfig.kind = "nilmap" \/ watcherNodes = "nil"
                     THEN periodicT' = [periodicT EXCEPT ![g].cap = ctxWatch]
                     ELSE periodicT' = [periodicT EXCEPT
                             ![g].pc = applyConfEntry(force),
                             ![g].a = [IdleApply EXCEPT !.force = force,
                                                        !.prev = periodicT[g].a.prev]]
    /\ UNCHANGED <<dirVars, node, nodeChan, cfgVars, scopeVars, watcherVars, kernelVars, caller,
                   watchesT, arpsT, syncT, starts, flips, spawned>>

\* Lines 358-360: the parent context is done; return without a send.
periodicExitParent(g) ==
    /\ Alive
    /\ periodicT[g].pc = "select"
    /\ ctxDone
    /\ periodicT' = [periodicT EXCEPT ![g].pc = "done"]
    /\ UNCHANGED <<dirVars, node, nodeChan, cfgVars, scopeVars, watcherVars, kernelVars, caller,
                   watchesT, arpsT, syncT, starts, flips, spawned, crashed>>

\* Lines 361-363: the watch context is done; d.doneChan is read and the send
\* on it begins (it completes in StopRecvDone).
periodicWatchDone(g) ==
    /\ Alive
    /\ periodicT[g].pc = "select"
    /\ Done(periodicT[g].cap)
    /\ periodicT' = [periodicT EXCEPT ![g].pc = "send", ![g].ch = doneChan]
    /\ UNCHANGED <<dirVars, node, nodeChan, cfgVars, scopeVars, watcherVars, kernelVars, caller,
                   watchesT, arpsT, syncT, starts, flips, spawned, crashed>>

\* applyConf, lines 405-411 without the return of line 408.
AfterParity_NoReturn(g, a, same) == Goto(g, a, "addrs")

\* applyConf, lines 405-411: parity ends the apply as a noop, a mismatch goes
\* on to setAddresses.
AfterParity(g, a, same) ==
    IF same THEN Finish(g, a, "noop", "nil") ELSE Goto(g, a, "addrs")

\* applyConf, lines 391-412 (force = false): IP.Get (an error is only logged
\* and leaves no addresses), then IPVS.CheckConfigParity.
applyConfParity(g) ==
    /\ Alive
    /\ periodicT[g].pc = "parity"
    /\ \E getOk \in Outcomes, parity \in IF env.calm THEN {"answer"} ELSE {"err", "answer"} :
          LET addresses == IF getOk THEN iface ELSE {}
              same == CheckConfigParity(watcherClusterConfig, addresses, ipvsTable)
              a == [periodicT[g].a EXCEPT
                       !.calls = @ \cup {"IP.Get", "IPVS.CheckConfigParity"},
                       !.getErr = env.history /\ ~getOk,
                       !.parity = IF parity = "err" THEN "err" ELSE IF same THEN "same" ELSE "diff"]
          IN periodicT' = [periodicT EXCEPT ![g] =
                 IF parity = "err" THEN Finish(g, a, "error", "ErrParity")
                                   ELSE AfterParity(g, a, same)]
    /\ UNCHANGED <<dirVars, node, nodeChan, cfgVars, scopeVars, watcherVars, kernelVars, caller,
                   watchesT, arpsT, syncT, starts, flips, spawned, crashed>>

\* Where setAddresses goes on with removals rem and additions add left.
AddrPc(rem, add) == IF rem # {} THEN "del" ELSE IF add # {} THEN "add" ELSE "mtu"

\* setAddresses, lines 510-522: IP.Get (an error ends the apply), the keys of
\* ClusterConfig.Config (a nil ClusterConfig panics), IP.Compare4.
setAddressesGet(g) ==
    /\ Alive
    /\ periodicT[g].pc = "addrs"
    /\ \E getOk \in Outcomes :
          LET a == [periodicT[g].a EXCEPT !.calls = @ \cup {"IP.Get"}] IN
          IF ~getOk
             THEN /\ periodicT' = [periodicT EXCEPT ![g] = Finish(g, a, "error", "ErrAddresses")]
                  /\ UNCHANGED crashed
             ELSE IF watcherClusterConfig.kind = "nil"
                     THEN /\ crashed' = "setAddresses:517"
                          /\ periodicT' = [periodicT EXCEPT ![g].a = a]
                     ELSE LET cmp == Compare4(iface, watcherClusterConfig.keys)
                              b == [a EXCEPT !.observed = iface,
                                             !.desired = watcherClusterConfig.keys,
                                             !.rem = cmp.removals,
                                             !.add = cmp.additions]
                          IN /\ periodicT' = [periodicT EXCEPT ![g] =
                                                 Goto(g, b, AddrPc(b.rem, b.add))]
                             /\ UNCHANGED crashed
    /\ UNCHANGED <<dirVars, node, nodeChan, cfgVars, scopeVars, watcherVars, kernelVars, caller,
                   watchesT, arpsT, syncT, starts, flips, spawned>>

\* An IP.Del error that is logged and passed over, as an IP.Add error is.
DelFailed_Continue(g, a, addr) ==
    LET b == [a EXCEPT !.rem = @ \ {addr}] IN Goto(g, b, AddrPc(b.rem, b.add))

\* setAddresses, lines 527-529, and applyConf, lines 416-419: an IP.Del error
\* is returned and ends the apply with metric "error".
DelFailed(g, a, addr) == Finish(g, a, "error", "ErrAddresses")

\* setAddresses, lines 524-530: IP.Del of one removal; its error ends the apply.
setAddressesDel(g) ==
    /\ Alive
    /\ periodicT[g].pc = "del"
    /\ \E addr \in periodicT[g].a.rem, ok \in Outcomes :
          LET a == [periodicT[g].a EXCEPT !.calls = @ \cup {"IP.Del"}] IN
          IF ok
             THEN LET b == [a EXCEPT !.rem = @ \ {addr}, !.deleted = @ \cup {addr}] IN
                  /\ iface' = iface \ {addr}
                  /\ periodicT' = Rewrite(g, Goto(g, b, AddrPc(b.rem, b.add)))
             ELSE /\ UNCHANGED iface
                  /\ periodicT' = [periodicT EXCEPT ![g] = DelFailed(g, a, addr)]
    /\ UNCHANGED <<dirVars, node, nodeChan, cfgVars, scopeVars, watcherVars, ipvsTable,
                   IptablesWriteFailure, caller,
                   watchesT, arpsT, syncT, starts, flips, spawned, crashed>>

\* setAddresses, lines 531-539: IP.Add of one addition, then
\* IP.AdvertiseMacAddress; both errors are only logged.
setAddressesAdd(g) ==
    /\ Alive
    /\ periodicT[g].pc = "add"
    /\ \E addr \in periodicT[g].a.add, ok \in Outcomes :
          LET a == [periodicT[g].a EXCEPT !.calls = @ \cup {"IP.Add", "IP.AdvertiseMacAddress"},
                                          !.add = @ \ {addr}]
              b == IF ok THEN [a EXCEPT !.added = @ \cup {addr}]
                         ELSE [a EXCEPT !.addFailed = @ \cup {addr}]
          IN /\ iface' = IF ok THEN iface \cup {addr} ELSE iface
             /\ periodicT' = IF ok THEN Rewrite(g, Goto(g, b, AddrPc(b.rem, b.add)))
                                   ELSE [periodicT EXCEPT ![g] = Goto(g, b, AddrPc(b.rem, b.add))]
    /\ UNCHANGED <<dirVars, node, nodeChan, cfgVars, scopeVars, watcherVars, ipvsTable,
                   IptablesWriteFailure, caller,
                   watchesT, arpsT, syncT, starts, flips, spawned, crashed>>

\* applyConf that goes from the addresses straight to IPVS in every mode.
AfterAddresses_SkipIPTables == "ipvs"

\* applyConf, line 425: the iptables step is run in iptables mode only.
AfterAddresses == IF colocationMode = colocationModeIPTables THEN "ipt" ELSE "ipvs"

\* setAddresses, lines 543-548: IP.SetMTU(ClusterConfig.MTUConfig, false) (a
\* nil ClusterConfig panics); its error is only logged.  applyConf goes on
\* with the iptables step in iptables mode (line 425), else with IPVS.
setAddressesMTU(g) ==
    /\ Alive
    /\ periodicT[g].pc = "mtu"
    /\ IF watcherClusterConfig.kind = "nil"
          THEN /\ crashed' = "setAddresses:543"
               /\ UNCHANGED periodicT
          ELSE /\ UNCHANGED crashed
               /\ LET a == [periodicT[g].a EXCEPT !.calls = @ \cup {"IP.SetMTU"}] IN
                  periodicT' = [periodicT EXCEPT ![g] =
                      Goto(g, a, AfterAddresses)]
    /\ UNCHANGED <<dirVars, node, nodeChan, cfgVars, scopeVars, watcherVars, kernelVars, caller,
                   watchesT, arpsT, syncT, starts, flips, spawned>>

\* setIPTables, lines 451-475: IPTables.Save, GenerateRulesForNodeClassic
\* with d.node.Name (a nil d.node panics), Merge; any error ends the apply.
setIPTablesPrepare(g) ==
    /\ Alive
    /\ periodicT[g].pc = "ipt"
    /\ \E out \in IF env.calm THEN {"ok"} ELSE {"saveErr", "generateErr", "mergeErr", "ok"} :
          LET a == [periodicT[g].a EXCEPT !.calls = @ \cup {"IPTables.Save"}] IN
          IF out = "saveErr"
             THEN /\ periodicT' = [periodicT EXCEPT ![g] = Finish(g, a, "error", "ErrIPTables")]
                  /\ UNCHANGED crashed
             ELSE IF node = "nil"
                     THEN /\ crashed' = "setIPTables:461"
                          /\ periodicT' = [periodicT EXCEPT ![g].a = a]
                     ELSE /\ UNCHANGED crashed
                          /\ periodicT' = [periodicT EXCEPT ![g] =
                                IF out = "ok" THEN Goto(g, a, "restore")
                                              ELSE Finish(g, a, "error", "ErrIPTables")]
    /\ UNCHANGED <<dirVars, node, nodeChan, cfgVars, scopeVars, watcherVars, kernelVars, caller,
                   watchesT, arpsT, syncT, starts, flips, spawned>>

\* setIPTables, lines 478-494: IPTables.Restore(merged); a failure sets the
\* IptablesWriteFailure gauge and ends the apply, a success clears the gauge.
setIPTablesRestore(g) ==
    /\ Alive
    /\ periodicT[g].pc = "restore"
    /\ \E ok \in Outcomes :
          LET a == [periodicT[g].a EXCEPT !.calls = @ \cup {"IPTables.Restore"}] IN
          /\ IptablesWriteFailure' = IF ok THEN 0 ELSE 1
          /\ periodicT' = [periodicT EXCEPT ![g] =
                IF ok THEN Goto(g, a, "ipvs") ELSE Finish(g, a, "error", "ErrIPTables")]
    /\ UNCHANGED <<dirVars, node, nodeChan, cfgVars, scopeVars, watcherVars, iface, ipvsTable,
                   caller, watchesT, arpsT, syncT, starts, flips, spawned, crashed>>

\* applyConf, lines 435-444: IPVS.SetIPVS(watcher, ClusterConfig, ...).
applyConfSetIPVS(g) ==
    /\ Alive
    /\ periodicT[g].pc = "ipvs"
    /\ \E ok \in Outcomes :
          LET a == [periodicT[g].a EXCEPT !.calls = @ \cup {"IPVS.SetIPVS"}] IN
          /\ ipvsTable' = IF ok THEN watcherClusterConfig.keys ELSE ipvsTable
          /\ periodicT' = [periodicT EXCEPT ![g] =
                IF ok THEN Finish(g, a, "complete", "nil") ELSE Finish(g, a, "error", "ErrIPVS")]
    /\ UNCHANGED <<dirVars, node, nodeChan, cfgVars, scopeVars, watcherVars, iface,
                   IptablesWriteFailure, caller,
                   watchesT, arpsT, syncT, starts, flips, spawned, crashed>>

\* reconfigure, lines 372-377: applyConf has returned, its error is logged
\* and dropped; periodic is back at its select, which evaluates d.ctxWatch.
reconfigureReturn(g) ==
    /\ Alive
    /\ periodicT[g].pc = "ret"
    /\ periodicT' = [periodicT EXCEPT
                        ![g].pc = "select",
                        ![g].a = [IdleApply EXCEPT !.prev = Outcome(periodicT[g].a)],
                        ![g].cap = ctxWatch]
    /\ UNCHANGED <<dirVars, node, nodeChan, cfgVars, scopeVars, watcherVars, kernelVars, caller,
                   watchesT, arpsT, syncT, starts, flips, spawned, crashed>>

setAddresses(g) ==
    \/ setAddressesGet(g)
    \/ setAddressesDel(g)
    \/ setAddressesAdd(g)
    \/ setAddressesMTU(g)

setIPTables(g) ==
    \/ setIPTablesPrepare(g)
    \/ setIPTablesRestore(g)

applyConf(g) ==
    \/ applyConfParity(g)
    \/ setAddresses(g)
    \/ setIPTables(g)
    \/ applyConfSetIPVS(g)

periodic(g) ==
    \/ \E force \in BOOLEAN : periodicTick(g, force)
    \/ periodicExitParent(g)
    \/ periodicWatchDone(g)
    \/ applyConf(g)
    \/ reconfigureReturn(g)

\* ------------------------------------------------------------- environment
\* The Watcher replaces its Nodes.
WatcherNodes ==
    /\ Alive
    /\ \E n \in NodeLists \ {watcherNodes} : watcherNodes' = n
    /\ UNCHANGED <<dirVars, node, nodeChan, cfgVars, scopeVars, watcherClusterConfig, kernelVars,
                   caller, loopVars, starts, flips, spawned, crashed>>

\* The Watcher replaces its ClusterConfig.
WatcherClusterConfig ==
    /\ Alive
    /\ \E cc \in ClusterConfigs \ {watcherClusterConfig} : watcherClusterConfig' = cc
    /\ UNCHANGED <<dirVars, node, nodeChan, cfgVars, scopeVars, watcherNodes, kernelVars,
                   caller, loopVars, starts, flips, spawned, crashed>>

\* The parent context d.ctx is cancelled.
ParentCancel ==
    /\ Alive
    /\ ~ctxDone
    /\ ctxDone' = TRUE
    /\ UNCHANGED <<dirVars, node, nodeChan, cfgVars, watchDone, watcherVars, kernelVars, caller,
                   loopVars, starts, flips, spawned, crashed>>

Lifecycle(c) ==
    \/ Start(c)
    \/ Stop(c)
    \/ CallerResume(c)

\* Every goroutine and the environment.
Next ==
    \/ \E c \in Callers : Lifecycle(c)
    \/ \E g \in Gens : periodic(g)
    \/ \E g \in Gens : watches(g)
    \/ \E g \in Gens : arps(g)
    \/ \E g \in Gens : causePeriodicWatcherSync(g)
    \/ WatcherNodes
    \/ WatcherClusterConfig
    \/ ParentCancel

\* The callers, the four goroutines a Start spawns and the parent context.
NextLoops ==
    \/ \E c \in Callers : Lifecycle(c)
    \/ \E g \in Gens : periodic(g)
    \/ \E g \in Gens : watches(g)
    \/ \E g \in Gens : arps(g)
    \/ \E g \in Gens : causePeriodicWatcherSync(g)
    \/ ParentCancel

\* One Start and one Stop at most, with every loop, under a still Watcher.
Spec == Init /\ [][NextLoops]_vars

\* The Go scheduler runs every runnable goroutine, and a select picks among
\* its ready cases at random, so a case that is ready again and again is
\* taken in the end.  Nothing makes a caller call Start or Stop.
Fairness ==
    /\ \A c \in Callers : WF_vars(StartBody(c) \/ StopBody(c))
    /\ \A g \in Gens :
          /\ WF_vars(periodic(g))
          /\ WF_vars(watches(g))
          /\ WF_vars(arps(g))
          /\ WF_vars(causePeriodicWatcherSync(g))
          /\ SF_vars(periodicWatchDone(g))
          /\ SF_vars(watchesExit(g))
          /\ SF_vars(arpsExit(g))

FairSpec == Init /\ [][NextLoops]_vars /\ Fairness

\* NumCallers callers that may start the director MaxStarts times in all; the
\* Watcher holds a record with a nil Config map, so every tick is skipped.
InitRestart ==
    /\ NewDirector([callers |-> NumCallers, starts |-> MaxStarts, calm |-> FALSE, history |-> FALSE])
    /\ colocationMode # colocationModeIPVS
    /\ watcherNodes = "withLocal"
    /\ watcherClusterConfig = NilConfigMap
    /\ iface = {}
    /\ ipvsTable = {}

\* Start and Stop, called again and again, and the select of the reconcile
\* loop.
NextRestart ==
    \/ \E c \in Callers : Lifecycle(c)
    \/ \E g \in Gens, force \in BOOLEAN : periodicTick(g, force)
    \/ \E g \in Gens : periodicWatchDone(g)

RestartSpec == InitRestart /\ [][NextRestart]_vars

\* One caller, one Start and no Stop; the interface holds any addresses and
\* the Watcher any ClusterConfig, which it may replace at any time.
InitApply ==
    /\ NewDirector([callers |-> 1, starts |-> 1, calm |-> FALSE, history |-> FALSE])
    /\ colocationMode # colocationModeIPVS
    /\ ~doCleanup
    /\ watcherNodes = "withLocal"
    /\ watcherClusterConfig = NilConfigMap
    /\ iface \in SUBSET VIPs
    /\ ipvsTable = {}

\* The reconcile loop of a started director, fed by the input pump and the
\* watch loop, under a Watcher whose ClusterConfig moves.
NextApply ==
    \/ \E c \in Callers : Start(c)
    \/ \E c \in Callers : CallerResume(c)
    \/ \E g \in Gens, force \in BOOLEAN : periodicTick(g, force)
    \/ \E g \in Gens : applyConf(g)
    \/ \E g \in Gens : reconfigureReturn(g)
    \/ \E g \in Gens : watchesRecv(g)
    \/ \E g \in Gens : causePeriodicWatcherSync(g)
    \/ WatcherClusterConfig

ApplySpec == InitApply /\ [][NextApply]_vars

\* One Start and no Stop, a Watcher that holds one ClusterConfig and the
\* local node and never changes them, collaborator calls that may fail, and
\* the outcome of each apply remembered for the next one.
InitStable ==
    /\ NewDirector([callers |-> 1, starts |-> 1, calm |-> FALSE, history |-> TRUE])
    /\ colocationMode # colocationModeIPVS
    /\ ~doCleanup
    /\ watcherNodes = "withLocal"
    /\ watcherClusterConfig \in {[kind |-> "map", keys |-> S] : S \in SUBSET VIPs}
    /\ iface \in SUBSET VIPs
    /\ ipvsTable = {}

\* From the moment every collaborator call succeeds: the kernel holds
\* whatever the earlier applies left, the Watcher holds a config and a node
\* list (with or without the local node) and never changes them.
InitCalm ==
    /\ NewDirector([callers |-> 1, starts |-> 1, calm |-> TRUE, history |-> FALSE])
    /\ colocationMode # colocationModeIPVS
    /\ ~doCleanup
    /\ watcherNodes \in {"others", "withLocal"}
    /\ watcherClusterConfig \in {[kind |-> "map", keys |-> S] : S \in SUBSET VIPs}
    /\ iface \in SUBSET VIPs
    /\ ipvsTable \in SUBSET VIPs

\* A director that is started and never stopped, under its tickers.
NextCalm ==
    \/ \E c \in Callers : Start(c)
    \/ \E c \in Callers : CallerResume(c)
    \/ \E g \in Gens, force \in BOOLEAN : periodicTick(g, force)
    \/ \E g \in Gens : applyConf(g)
    \/ \E g \in Gens : reconfigureReturn(g)
    \/ \E g \in Gens : watchesRecv(g)
    \/ \E g \in Gens : arpsTick(g)
    \/ \E g \in Gens : causePeriodicWatcherSync(g)

\* A called Start runs to its end, every goroutine gets to run, and the 2 s
\* parity ticker fires again and again.
FairnessCalm ==
    /\ \A c \in Callers : WF_vars(StartBody(c))
    /\ \A g \in Gens :
          /\ WF_vars(applyConf(g) \/ reconfigureReturn(g))
          /\ SF_vars(periodicTick(g, FALSE))
          /\ WF_vars(watchesRecv(g))
          /\ WF_vars(causePeriodicWatcherSync(g))

CalmSpec == InitCalm /\ [][NextCalm]_vars /\ FairnessCalm

StableSpec == InitStable /\ [][NextCalm]_vars

\* The goroutine has returned (a crashed process runs no goroutine).
Terminated(g) ==
    \/ ~Alive
    \/ /\ periodicT[g].pc = "done"
       /\ watchesT[g].pc = "done"
       /\ arpsT[g].pc = "done"
       /\ syncT[g] = "done"

\* ------------------------------------------------------------------ claims
\* The caller c is inside the body of Start, after line 106.
InStart(c) == caller[c].pc \in {"st_init", "st_arp", "st_flush", "st_spawn", "st_ret"}

\* The caller c is inside the body of Stop, after line 196.
InStop(c) == caller[c].pc \in {"sp_cxl", "sp_wait", "cl_flush", "cl_ip", "cl_ipvs", "sp_ret"}

\* The reconcile loop g is inside applyConf.
InApply(g) == periodicT[g].pc \in {"parity", "addrs", "del", "add", "mtu", "ipt", "restore", "ipvs"}

\* Start / Stop has returned to caller c with result r.
Returned(c, op, r) == caller[c].pc = "returned" /\ caller[c].op = op /\ caller[c].ret = r

\* The collaborator calls that write kernel state.
Mutating == {"IP.Add", "IP.Del", "IP.SetMTU", "IPTables.Restore", "IPVS.SetIPVS"}

\* applyConf of loop g has returned, having recorded "complete".
Completed(g) == periodicT[g].pc = "ret" /\ periodicT[g].a.metrics = <<"complete">>

\* C1: isStarted goes from false to true at most once per director: no
\* Start after a Stop gets through.
C1_StartsAtMostOnce == flips <= 1

\* C2: a Start called while isStarted is true returns the already-started
\* error at once: it makes no collaborator call, spawns no loop and leaves
\* isStarted, reconfiguring, doneChan and the child scope as they were.
C2_StartWhenStartedRejected ==
    [][\A c \in Callers :
          (caller[c].pc = "idle" /\ isStarted /\ caller'[c].op = "Start")
             => /\ Returned(c, "Start", "ErrStarted")'
                /\ caller'[c].calls = {}
                /\ UNCHANGED <<isStarted, reconfiguring, doneChan, ctxWatch, cxlWatch,
                               watchDone, spawned, loopVars, kernelVars>>]_vars

\* A Start has been rejected by a started director whose loops are running.
C2_Witness ==
    \E c \in Callers :
        /\ Returned(c, "Start", "ErrStarted")
        /\ isStarted
        /\ spawned = 1
        /\ periodicT[1].pc # "none"

\* C3: at most one of Start's body, Stop's body and applyConf executes at a
\* time, and reconfiguring is true while one of them does.
C3_OneBodyAtATime ==
    LET bodies == Cardinality({c \in Callers : InStart(c) \/ InStop(c)})
                    + Cardinality({g \in Gens : InApply(g)})
    IN bodies <= 1 /\ (bodies = 1 => reconfiguring)

\* C4: a Start that returns the SetARP or the Flush error has spawned no
\* loop and leaves isStarted and reconfiguring false.
C4_FailedStartNotRunning ==
    \A c \in Callers :
        (Returned(c, "Start", "ErrSetARP") \/ Returned(c, "Start", "ErrFlush"))
           => ~isStarted /\ ~reconfiguring

\* C5: once the child scope g is cancelled, periodic, watches, arps and
\* causePeriodicWatcherSync of that Start all terminate.
C5_LoopsTerminate == \A g \in Gens : [](g \in watchDone => <>Terminated(g))

\* C6: once Stop has entered cleanup it calls IPTables.Flush, IP.Teardown and
\* IPVS.Teardown, all three, and Stop returns an error exactly when one of
\* them failed, with isStarted and reconfiguring false.
C6_CleanupRunsAllThree ==
    \A c \in Callers :
        /\ crashed # "cleanup:178"
        /\ (doCleanup /\ (Returned(c, "Stop", "nil") \/ Returned(c, "Stop", "ErrCleanup")))
              => /\ caller[c].calls = {"IPTables.Flush", "IP.Teardown", "IPVS.Teardown"}
                 /\ (caller[c].ret = "ErrCleanup") = caller[c].failed
                 /\ ~isStarted
                 /\ ~reconfiguring

\* C7: after an applyConf that returns success, the IPv4 addresses bound to
\* the interface are exactly the keys of ClusterConfig.Config it read.
C7_CompleteMeansDesired ==
    \A g \in Gens : Completed(g) => iface = periodicT[g].a.desired

\* C7, amended: after an applyConf that returns success, every observed
\* address that is no key of the config it read has been deleted, IP.Add has
\* been tried for every key that was not observed, and, unless somebody else
\* rewrote the interface meanwhile, the bound addresses are the keys minus
\* those whose IP.Add failed.
C7_CompleteMeansReconciled ==
    \A g \in Gens :
        Completed(g) =>
            LET a == periodicT[g].a IN
            /\ a.deleted = a.observed \ a.desired
            /\ a.added \cup a.addFailed = a.desired \ a.observed
            /\ a.added \cap a.addFailed = {}
            /\ ~a.torn => iface = a.desired \ a.addFailed

\* An apply has completed after a successful IP.Del and a failed IP.Add.
C7_Witness ==
    \E g \in Gens :
        /\ Completed(g)
        /\ periodicT[g].a.deleted # {}
        /\ periodicT[g].a.addFailed # {}
        /\ ~periodicT[g].a.torn

\* The reconcile loop runs, the interface holds every configured VIP and
\* every parity tick ends as a noop.
Steady ==
    /\ Alive
    /\ watcherClusterConfig.keys \subseteq iface
    /\ \A g \in Gens :
          (periodicT[g].pc = "ret" /\ ~periodicT[g].a.force)
             => periodicT[g].a.metrics = <<"noop">>

\* C8: with a stable Watcher and collaborator calls that succeed, a running
\* director reaches the steady state and stays in it.
C8_ConvergesAndStays == <>[](spawned = 0 \/ Steady)

\* C9: an applyConf(false) whose parity check reports same returns nil at
\* once, with the single metric sample "noop" and no mutating call.
C9_ParityNoop ==
    \A g \in Gens :
        (~periodicT[g].a.force /\ periodicT[g].a.parity = "same")
           => /\ periodicT[g].pc = "ret"
              /\ periodicT[g].a.metrics = <<"noop">>
              /\ periodicT[g].a.res = "nil"
              /\ periodicT[g].a.calls \cap Mutating = {}

\* An unforced apply has returned after parity with a non-empty config.
C9_Witness ==
    \E g \in Gens :
        /\ periodicT[g].pc = "ret"
        /\ ~periodicT[g].a.force
        /\ periodicT[g].a.parity = "same"
        /\ iface # {}

\* C10: an applyConf(true) makes no parity check and attempts address
\* reconciliation, the iptables step (in iptables mode) and IPVS.SetIPVS,
\* whatever the collaborators return.
C10_ForcedAttemptsAll ==
    \A g \in Gens :
        (periodicT[g].pc = "ret" /\ periodicT[g].a.force)
           => /\ "IPVS.CheckConfigParity" \notin periodicT[g].a.calls
              /\ "IP.Get" \in periodicT[g].a.calls
              /\ colocationMode = colocationModeIPTables => "IPTables.Save" \in periodicT[g].a.calls
              /\ "IPVS.SetIPVS" \in periodicT[g].a.calls

\* C10, amended: an applyConf(true) makes no parity check and attempts
\* address reconciliation; it attempts the iptables step exactly when the
\* mode is iptables and address reconciliation returned no error, and
\* IPVS.SetIPVS exactly when no earlier step returned an error.
C10_ForcedAttemptsUntilError ==
    \A g \in Gens :
        periodicT[g].a.force =>
            LET a == periodicT[g].a IN
            /\ "IPVS.CheckConfigParity" \notin a.calls
            /\ a.parity = "none"
            /\ periodicT[g].pc = "ret" =>
                  /\ "IP.Get" \in a.calls
                  /\ ("IPTables.Save" \in a.calls)
                        = (colocationMode = colocationModeIPTables /\ a.res # "ErrAddresses")
                  /\ ("IPVS.SetIPVS" \in a.calls) = (a.res \in {"nil", "ErrIPVS"})

\* A forced apply has returned the address error without reaching IPVS.
C10_Witness ==
    \E g \in Gens :
        /\ periodicT[g].pc = "ret"
        /\ periodicT[g].a.force
        /\ periodicT[g].a.res = "ErrAddresses"
        /\ "IP.Del" \in periodicT[g].a.calls
        /\ "IPVS.SetIPVS" \notin periodicT[g].a.calls

\* The calls of the four steps of an apply.
ParityCalls == {"IP.Get", "IPVS.CheckConfigParity"}
AddressCalls == {"IP.Get", "IP.Del", "IP.Add", "IP.AdvertiseMacAddress", "IP.SetMTU"}
IPTablesCalls == {"IPTables.Save", "IPTables.Restore"}

\* C11: an apply runs parity check, address reconciliation, iptables step
\* (iptables mode only) and IPVS.SetIPVS in this order: while a step is under
\* way no call of a later step has been made, IPVS.SetIPVS comes after a
\* finished address step and, in iptables mode, after IPTables.Restore, and
\* a returned error ends the apply with the one metric "error" and without
\* any call of a later step.
C11_StepsInOrder ==
    \A g \in Gens :
        LET a == periodicT[g].a
            pc == periodicT[g].pc
        IN
        /\ pc = "parity" => a.calls = {}
        /\ pc \in {"addrs", "del", "add", "mtu"} =>
               a.calls \cap (IPTablesCalls \cup {"IPVS.SetIPVS"}) = {}
        /\ pc \in {"ipt", "restore", "ipvs"} => "IPVS.SetIPVS" \notin a.calls
        /\ a.calls \cap IPTablesCalls # {} =>
               /\ colocationMode = colocationModeIPTables
               /\ "IP.SetMTU" \in a.calls /\ a.rem = {} /\ a.add = {}
        /\ "IPVS.SetIPVS" \in a.calls =>
               /\ pc = "ret"
               /\ "IP.SetMTU" \in a.calls /\ a.rem = {} /\ a.add = {}
               /\ colocationMode = colocationModeIPTables => "IPTables.Restore" \in a.calls
        /\ a.res \in {"ErrParity", "ErrAddresses", "ErrIPTables", "ErrIPVS"} =>
               pc = "ret" /\ a.metrics = <<"error">>
        /\ a.res = "ErrParity" => a.calls = ParityCalls
        /\ a.res = "ErrAddresses" => a.calls \subseteq ParityCalls \cup AddressCalls
        /\ a.res = "ErrIPTables" => "IPVS.SetIPVS" \notin a.calls

\* In iptables mode an apply has ended with the error of a failed
\* IPTables.Restore, after its address reconciliation.
C11_Witness ==
    \E g \in Gens :
        /\ periodicT[g].pc = "ret"
        /\ periodicT[g].a.res = "ErrIPTables"
        /\ "IPTables.Restore" \in periodicT[g].a.calls
        /\ "IP.Add" \in periodicT[g].a.calls

\* C12: with the Watcher unchanged, an applyConf(false) that follows an
\* applyConf that returned success records "noop" and makes no mutating
\* collaborator call (even granted that no IP.Get failed in either apply and
\* that the parity check of the second returned no error).
C12_SecondApplyNoop ==
    \A g \in Gens :
        LET a == periodicT[g].a IN
        (a.prev \in {"noop", "applied", "addFailed"} /\ ~a.force /\ ~a.getErr /\ a.parity # "err")
           => /\ a.calls \cap Mutating = {}
              /\ periodicT[g].pc = "ret" => a.metrics = <<"noop">>

\* C12, amended: with the Watcher and the kernel state otherwise unchanged,
\* an applyConf(false) that follows a successful applyConf in which no IP.Get
\* and no IP.Add failed, and whose own IP.Get and parity check return no
\* error, reports parity, records the one metric "noop" and makes no
\* mutating call.
C12_SecondApplyNoopAfterClean ==
    \A g \in Gens :
        LET a == periodicT[g].a IN
        (a.prev \in {"noop", "applied"} /\ ~a.force /\ ~a.getErr /\ a.parity \notin {"none", "err"})
           => /\ a.parity = "same"
              /\ periodicT[g].pc = "ret"
              /\ a.metrics = <<"noop">>
              /\ a.res = "nil"
              /\ a.calls \cap Mutating = {}

\* An apply that bound addresses is followed by a parity apply that has
\* returned as a noop.
C12_Witness ==
    \E g \in Gens :
        /\ periodicT[g].a.prev = "applied"
        /\ ~periodicT[g].a.force
        /\ periodicT[g].pc = "ret"
        /\ periodicT[g].a.metrics = <<"noop">>
        /\ iface # {}
\* C13: once the child scope of a Start is cancelled (the parent scope being
\* live), its reconcile loop sends on doneChan and returns; it does not stay
\* blocked on the send, whether or not Stop still waits.
C13_ReconcileLoopReturns ==
    \A g \in Gens :
        [](g \in watchDone => <>(~Alive \/ ctxDone \/ periodicT[g].pc = "done"))
\* C14: when the parent scope is cancelled and no Stop has cancelled the
\* child scope of a Start, its reconcile loop attempts no send on doneChan.
C14_ParentCancelNoSend ==
    \A g \in Gens : (ctxDone /\ g \notin watchDone) => periodicT[g].pc # "send"
\* The Watcher has no ClusterConfig record, a nil Config map, or nil Nodes.
NothingToApply ==
    \/ watcherClusterConfig.kind \in {"nil", "nilmap"}
    \/ watcherNodes = "nil"

\* C15: a reconcile tick that finds no ClusterConfig, a nil Config map or nil
\* Nodes is skipped: the loop enters no apply and keeps running, and an ARP
\* tick in that situation advertises nothing.
C15_NilTickSkipped ==
    [][NothingToApply =>
          /\ crashed' \notin {"periodic:326", "periodic:347"}
          /\ \A g \in Gens : periodicT[g].pc = "select" => ~InApply(g)'
          /\ arpTargets = {}]_vars
\* C16: the iptables step of an apply runs in iptables mode only, and never
\* while the cached local node is nil: d.node is not dereferenced when nil.
C16_IPTablesStepHasNode ==
    /\ crashed # "setIPTables:461"
    /\ \A g \in Gens :
          periodicT[g].pc \in {"ipt", "restore"}
             => colocationMode = colocationModeIPTables /\ node # "nil"
\* The accesses of d.node: the watch loop's assignment inside
\* d.Lock()/d.Unlock() (lines 246-248) and the read of d.node.Name in
\* setIPTables (line 461), made by the reconcile loop with no lock taken.
nodeAccesses ==
    { [by |-> "watches", line |-> 247, write |-> TRUE, locked |-> TRUE],
      [by |-> "setIPTables", line |-> 461, write |-> FALSE, locked |-> FALSE] }

\* The access is the next thing its task does.
NodeAccessPending(acc) ==
    IF acc.by = "watches"
       THEN \E g \in Gens : /\ watchesT[g].pc = "select"
                            /\ Len(nodeChan) > 0
                            /\ Head(nodeChan) = "withLocal"
       ELSE \E g \in Gens : periodicT[g].pc = "ipt"

\* C17: two accesses of the cached node by different tasks, one of them a
\* write, are never both pending unless both are made under the director
\* mutex.
C17_NodeAccessesLocked ==
    \A acc \in nodeAccesses : \A other \in nodeAccesses :
        ( /\ acc # other
          /\ acc.write \/ other.write
          /\ Alive
          /\ NodeAccessPending(acc)
          /\ NodeAccessPending(other) )
            => acc.locked /\ other.locked
\* C18: in colocation mode iptables, the apply that follows an apply whose
\* IPTables.Restore failed attempts the restore again: when it has read the
\* addresses and returns without an error, it has called IPTables.Restore.
C18_RestoreRetriedNextTick ==
    \A g \in Gens :
        ( /\ colocationMode = colocationModeIPTables
          /\ periodicT[g].pc = "ret"
          /\ periodicT[g].a.prev = "restoreFailed"
          /\ ~periodicT[g].a.getErr
          /\ periodicT[g].a.res = "nil" )
            => "IPTables.Restore" \in periodicT[g].a.calls
\* Stop's caller is inside cleanup (lines 172-190, called at line 212).
InCleanup(c) == caller[c].pc \in {"cl_flush", "cl_ip", "cl_ipvs"}

\* C19: Stop's cleanup never overlaps an apply: while a caller of Stop is in
\* the cleanup routine, no reconcile loop of the director is inside
\* applyConf.
C19_CleanupExcludesApply ==
    \A c \in Callers : \A g \in Gens : InCleanup(c) => ~InApply(g)
\* C20: when Stop reaches the child-scope cancellation of line 200, an
\* earlier Start has created the scope and its cancel function: Stop never
\* calls a nil cxlWatch.
C20_StopCancelsCreatedScope ==
    /\ crashed # "Stop:200"
    /\ \A c \in Callers : caller[c].pc = "sp_cxl" => cxlWatch # 0
====
